---- MODULE Spec2Model ----
(***************************************************************************)
(* A model of src/app.py, the personal-library Streamlit application.      *)
(*                                                                         *)
(* The catalog is the DataFrame st.session_state.library_df; every rerun   *)
(* of the script (one user interaction) is one action.  Rows are records   *)
(* with the thirteen columns of the DataFrame; row labels are the 0-based  *)
(* positions 0..n-1 (the frame is always re-indexed), so row l of the      *)
(* frame is element l+1 of the sequence.                                   *)
(*                                                                         *)
(* Text columns that may be empty hold "" in the session that wrote them   *)
(* and the float NaN after the CSV file was read back (pandas writes NaN   *)
(* as an empty cell and reads an empty cell as NaN).  Title and Author are *)
(* sequences of characters so that lower(), substring search and the       *)
(* code-point order used by sort_values can be computed.  Dates are the    *)
(* "%Y-%m-%d" strings of strftime; they order exactly as their days do.    *)
(***************************************************************************)
EXTENDS Integers, Sequences, FiniteSets, TLC

VARIABLES
    library_df,   \* st.session_state.library_df: sequence of rows
    files,        \* names of the files present in COVER_IMAGE_FOLDER
    disk,         \* rows of DATA_FILE as last written by to_csv
    edit_index,   \* st.session_state.edit_index, or NoIndex when the key is absent
    today,        \* datetime.date.today() as a day ordinal
    faults,       \* number of failed durable writes so far
    filters,      \* the values of the "Search & Filters" widgets
    view,         \* the frame last returned by filter_and_sort_books (row labels)
    metric,       \* the average-rating metric last rendered, in tenths
    event         \* the handler the last rerun called and how it ended

vars == <<library_df, files, disk, edit_index, today, faults, filters, view, metric, event>>

----------------------------------------------------------------------------
(* Bounds of the model *)

MaxBooks == 2
MaxDay == 2
MaxSaveFailures == 1
MaxQueryBooks == 3

----------------------------------------------------------------------------
(* Values *)

NaN == "float(nan)"
NoIndex == -1
COVER_IMAGE_FOLDER == "book_covers"
NoUpload == "None"

GenreOptions ==
    {"Fiction", "Non-Fiction", "Science Fiction", "Fantasy", "Mystery", "Thriller",
     "Romance", "Biography", "History", "Science", "Self-Help", "Other"}

StatusOptions == {"Unread", "Reading", "Completed", "On Hold", "Dropped"}

SortOptions ==
    {"Date Added (Newest)", "Date Added (Oldest)", "Title (A-Z)", "Title (Z-A)",
     "Author (A-Z)", "Author (Z-A)", "Rating (High-Low)", "Rating (Low-High)"}

\* Python truthiness of a text cell: only the empty string is falsy; NaN is truthy.
Truthy(v) == v # ""

\* Python truthiness of a str built from characters.
TruthyText(s) == Len(s) > 0

----------------------------------------------------------------------------
(* Character strings *)

Ord(c) ==
    CASE c = "A" -> 65
      [] c = "B" -> 66
      [] c = "a" -> 97
      [] c = "b" -> 98

LowerChar(c) ==
    CASE c = "A" -> "a"
      [] c = "B" -> "b"
      [] OTHER -> c

\* str.lower()
Lower(s) == [i \in 1..Len(s) |-> LowerChar(s[i])]

\* str.contains(sub) for a pattern of plain letters: substring search.
Contains(s, sub) ==
    \E i \in 0..(Len(s) - Len(sub)) :
        \A j \in 1..Len(sub) : s[i + j] = sub[j]

\* s < t in Python's order on str (lexicographic by code point).
RECURSIVE StrLess(_, _)
StrLess(s, t) ==
    IF Len(t) = 0 THEN FALSE
    ELSE IF Len(s) = 0 THEN TRUE
    ELSE IF Ord(Head(s)) # Ord(Head(t)) THEN Ord(Head(s)) < Ord(Head(t))
    ELSE StrLess(Tail(s), Tail(t))

StrLE(s, t) == s = t \/ StrLess(s, t)

----------------------------------------------------------------------------
(* Durable store: to_csv / read_csv *)

\* to_csv writes NaN as an empty cell.
ToCsvCell(v) == IF v = NaN THEN "" ELSE v

\* read_csv reads an empty cell as NaN.
ReadCsvCell(v) == IF v = "" THEN NaN ELSE v

ToCsvRow(r) ==
    [r EXCEPT !.ISBN = ToCsvCell(@), !.Review = ToCsvCell(@),
              !.DateFinished = ToCsvCell(@), !.CoverImage = ToCsvCell(@)]

ReadCsvRow(r) ==
    [r EXCEPT !.ISBN = ReadCsvCell(@), !.Review = ReadCsvCell(@),
              !.DateFinished = ReadCsvCell(@), !.CoverImage = ReadCsvCell(@)]

to_csv(df) == [i \in 1..Len(df) |-> ToCsvRow(df[i])]

read_csv(rows) == [i \in 1..Len(rows) |-> ReadCsvRow(rows[i])]

\* save_data(): the whole frame is written; a failed write raises and leaves the
\* file as it was.
save_data(df, ok) ==
    /\ disk' = IF ok THEN to_csv(df) ELSE disk
    /\ faults' = IF ok THEN faults ELSE faults + 1

----------------------------------------------------------------------------
(* Cover files *)

\* f"{COVER_IMAGE_FOLDER}/{isbn}.{file_extension}"
cover_filename(isbn, ext) == COVER_IMAGE_FOLDER \o "/" \o isbn \o "." \o ext

\* handle_cover_upload: the path returned (the file is written by the caller's
\* files' update), or None.
handle_cover_upload(upload, isbn) ==
    IF upload # NoUpload THEN cover_filename(isbn, upload) ELSE NoUpload

FilesAfterUpload(upload, isbn) ==
    IF upload # NoUpload THEN files \cup {cover_filename(isbn, upload)} ELSE files

\* os.path.exists(path) raises TypeError for a float.
ExistsRaises(path) == path = NaN

----------------------------------------------------------------------------
(* Rows *)

\* Row `label` of a frame (labels are 0-based).
Row(df, label) == df[label + 1]

Labels(df) == 0..(Len(df) - 1)

\* datetime.date.today().strftime("%Y-%m-%d")
strftime(day) == "2025-01-0" \o ToString(day)

\* The "%Y-%m-%d" strings of the days of the model.
DateStrings == [d \in 1..9 |-> strftime(d)]

\* The day a "%Y-%m-%d" string names.
DayOf(s) == CHOOSE d \in 1..9 : DateStrings[d] = s

\* The dict add_book builds (lines 54-68).
new_book(form, upload) ==
    [Title |-> form.title,
     Author |-> form.author,
     ISBN |-> form.isbn,
     Genre |-> form.genre,
     PublicationYear |-> form.year,
     Pages |-> form.pages,
     CurrentPage |-> 0,
     Status |-> "Unread",
     Rating |-> 0,
     Review |-> "",
     DateAdded |-> strftime(today),
     DateFinished |-> "",
     CoverImage |-> IF upload # NoUpload THEN handle_cover_upload(upload, form.isbn) ELSE ""]

\* The new row put in front of the frame instead of after it.
concat_in_front(df, row) == <<row>> \o df

\* pd.concat([df, pd.DataFrame([row])], ignore_index=True)
concat(df, row) == Append(df, row)

\* df.drop(index).reset_index(drop=True)
drop(df, index) ==
    [i \in 1..(Len(df) - 1) |-> IF i < index + 1 THEN df[i] ELSE df[i + 1]]

\* The assignments of update_book to the form's columns (lines 78-87).
assign_fields(row, form) ==
    [row EXCEPT !.Title = form.title,
                !.Author = form.author,
                !.ISBN = form.isbn,
                !.Genre = form.genre,
                !.PublicationYear = form.year,
                !.Pages = form.pages,
                !.CurrentPage = form.current_page,
                !.Status = form.status,
                !.Rating = form.rating,
                !.Review = form.review]

\* Lines 89-90: Date Finished is set when the status is Completed and the
\* cell is falsy.
stamp_finished(row, status) ==
    IF status = "Completed" /\ ~Truthy(row.DateFinished)
    THEN [row EXCEPT !.DateFinished = strftime(today)]
    ELSE row

\* Lines 92-95: a new upload replaces the cover path.
replace_cover(row, upload, isbn) ==
    IF upload # NoUpload /\ Truthy(handle_cover_upload(upload, isbn))
    THEN [row EXCEPT !.CoverImage = handle_cover_upload(upload, isbn)]
    ELSE row

updated_row(row, form, upload) ==
    replace_cover(stamp_finished(assign_fields(row, form), form.status), upload, form.isbn)

\* Lines 101-103: the files left after delete_book looked at cover_path.
files_after_remove(cover_path) ==
    IF Truthy(cover_path) /\ cover_path \in files THEN files \ {cover_path} ELSE files

----------------------------------------------------------------------------
(* Forms *)

BlankForm ==
    [title |-> <<>>, author |-> <<>>, isbn |-> "", genre |-> "Fiction", year |-> 0,
     pages |-> 1, current_page |-> 0, status |-> "Unread", rating |-> 0, review |-> ""]

\* `not title or not author or not pages`
form_invalid(form) ==
    ~TruthyText(form.title) \/ ~TruthyText(form.author) \/ form.pages = 0

\* The handler the last rerun called (add, update, delete, statistics), the row
\* index it was given, and how it ended: saved is "ok" or "failed" when it
\* reached save_data, "none" otherwise; raised tells whether it ended in an
\* exception.
Event(op, index, saved, raised) ==
    [op |-> op, index |-> index, saved |-> saved, raised |-> raised]

Saved(ok) == IF ok THEN "ok" ELSE "failed"

\* The rerun called none of add_book, update_book, delete_book, show_statistics.
NoEvent == Event("none", NoIndex, "none", FALSE)

----------------------------------------------------------------------------
(* filter_and_sort_books *)

\* The masks with the rating comparison turned round.
passes_rating_reversed(row, f) ==
    /\ TruthyText(f.search_query) =>
          \/ Contains(Lower(row.Title), Lower(f.search_query))
          \/ Contains(Lower(row.Author), Lower(f.search_query))
    /\ f.genre_filter # {} => row.Genre \in f.genre_filter
    /\ f.status_filter # {} => row.Status \in f.status_filter
    /\ row.PublicationYear >= f.year_min
    /\ row.PublicationYear <= f.year_max
    /\ row.Rating <= f.rating_filter

\* Lines 278-296: the boolean masks, applied one after the other.
passes(row, f) ==
    /\ TruthyText(f.search_query) =>
          \/ Contains(Lower(row.Title), Lower(f.search_query))
          \/ Contains(Lower(row.Author), Lower(f.search_query))
    /\ f.genre_filter # {} => row.Genre \in f.genre_filter
    /\ f.status_filter # {} => row.Status \in f.status_filter
    /\ row.PublicationYear >= f.year_min
    /\ row.PublicationYear <= f.year_max
    /\ row.Rating >= f.rating_filter

\* The labels of the rows that pass, in catalog order.
filtered_labels(df, f) ==
    SelectSeq([i \in 1..Len(df) |-> i - 1], LAMBDA l : passes(Row(df, l), f))

\* sort_mapping.get(sort_option, ('Date Added', False))
sort_column(option) ==
    CASE option \in {"Date Added (Newest)", "Date Added (Oldest)"} -> "Date Added"
      [] option \in {"Title (A-Z)", "Title (Z-A)"} -> "Title"
      [] option \in {"Author (A-Z)", "Author (Z-A)"} -> "Author"
      [] option \in {"Rating (High-Low)", "Rating (Low-High)"} -> "Rating"
      [] OTHER -> "Date Added"

sort_ascending(option) ==
    option \in {"Date Added (Oldest)", "Title (A-Z)", "Author (A-Z)", "Rating (Low-High)"}

\* a <= b in the order of the column's values.
KeyLE(column, a, b) ==
    CASE column = "Date Added" -> DayOf(a.DateAdded) <= DayOf(b.DateAdded)
      [] column = "Title" -> StrLE(a.Title, b.Title)
      [] column = "Author" -> StrLE(a.Author, b.Author)
      [] column = "Rating" -> a.Rating <= b.Rating

KeyEq(column, a, b) == KeyLE(column, a, b) /\ KeyLE(column, b, a)

\* May row a stand before row b in the sorted frame?
InOrder(column, ascending, a, b) ==
    IF ascending THEN KeyLE(column, a, b) ELSE KeyLE(column, b, a)

Range(seq) == {seq[i] : i \in 1..Len(seq)}

\* The arrangements of the labels in S, each label once, in which the rows
\* stand in the order of the key: a row may come first when no other row has
\* to stand before it.
RECURSIVE Arrangements(_, _, _, _)
Arrangements(df, S, column, ascending) ==
    IF S = {} THEN {<<>>}
    ELSE UNION {{<<x>> \o p : p \in Arrangements(df, S \ {x}, column, ascending)} :
                   x \in {y \in S : \A z \in S :
                              InOrder(column, ascending, Row(df, y), Row(df, z))}}

\* df.sort_values(by=column, ascending=ascending) with the default
\* kind='quicksort', which is not a stable sort: every arrangement of the rows
\* that is ordered by the key is a possible result.
sort_values(df, labels, column, ascending) ==
    Arrangements(df, Range(labels), column, ascending)

\* The frames filter_and_sort_books(filters) may return, as sequences of row labels.
filter_and_sort_books(df, f) ==
    sort_values(df, filtered_labels(df, f),
                sort_column(f.sort_option), sort_ascending(f.sort_option))

----------------------------------------------------------------------------
(* Statistics *)

RECURSIVE SumRatings(_)
SumRatings(df) == IF Len(df) = 0 THEN 0 ELSE Head(df).Rating + SumRatings(Tail(df))

\* round(10 * num / den) to the nearest integer, ties to the even one: the
\* digits f"{num/den:.1f}" prints (the ties num/den has for den <= 7 are exact
\* binary fractions).
Tenths(num, den) ==
    LET q == (10 * num) \div den
        r == (10 * num) % den
    IN  IF 2 * r < den THEN q
        ELSE IF 2 * r > den THEN q + 1
        ELSE IF q % 2 = 0 THEN q ELSE q + 1

\* f"{library_df['Rating'].mean():.1f}/5", in tenths.
average_rating(df) == Tenths(SumRatings(df), Len(df))

----------------------------------------------------------------------------
(* The handlers *)

\* The widgets' defaults (lines 232-262); CurrentYear stands for
\* datetime.date.today().year.
CurrentYear == 1

DefaultFilters ==
    [search_query |-> <<>>, genre_filter |-> {}, status_filter |-> {},
     year_min |-> 0, year_max |-> CurrentYear, rating_filter |-> 0,
     sort_option |-> "Date Added (Newest)"]

\* The rerun computed no frame; no frame holds the label NoIndex.
NoFrame == <<NoIndex>>

Init ==
    /\ library_df = <<>>
    /\ files = {}
    /\ disk = <<>>
    /\ edit_index = NoIndex
    /\ today = 1
    /\ faults = 0
    /\ filters = DefaultFilters
    /\ view = NoFrame
    /\ metric = 0
    /\ event = NoEvent

\* add_book (lines 53-75).
add_book(form, upload, ok) ==
    /\ files' = FilesAfterUpload(upload, form.isbn)
    /\ library_df' = concat(library_df, new_book(form, upload))
    /\ save_data(library_df', ok)
    /\ event' = Event("add", NoIndex, Saved(ok), ~ok)

\* show_add_book_form, submitted (lines 133-137); the page computes no frame.
show_add_book_form(form, upload, ok) ==
    /\ Len(library_df) < MaxBooks
    /\ IF form_invalid(form)
       THEN /\ event' = NoEvent
            /\ UNCHANGED <<library_df, files, disk, faults>>
       ELSE add_book(form, upload, ok)
    /\ view' = NoFrame
    /\ UNCHANGED <<edit_index, today, filters, metric>>

\* update_book (lines 77-98).
update_book(index, form, upload, ok) ==
    /\ library_df' =
          [library_df EXCEPT ![index + 1] = updated_row(@, form, upload)]
    /\ files' = FilesAfterUpload(upload, form.isbn)
    /\ save_data(library_df', ok)
    /\ event' = Event("update", index, Saved(ok), ~ok)

\* delete_book (lines 100-107): os.path.exists raises before anything changed
\* when the cell is NaN.
delete_book(index, ok) ==
    LET cover_path == Row(library_df, index).CoverImage
    IN  IF Truthy(cover_path) /\ ExistsRaises(cover_path)
        THEN /\ event' = Event("delete", index, "none", TRUE)
             /\ UNCHANGED <<library_df, files, disk, faults>>
        ELSE /\ files' = files_after_remove(cover_path)
             /\ library_df' = drop(library_df, index)
             /\ save_data(library_df', ok)
             /\ event' = Event("delete", index, Saved(ok), ~ok)

\* display_cover (lines 47-51) raises for a NaN cell.
display_cover_raises(cover_path) == Truthy(cover_path) /\ ExistsRaises(cover_path)

\* The script reaches the buttons of the card at position k of frame v:
\* display_cover raised for none of the cards 0..k (lines 410-412, 144).
CardRenders(v, k) ==
    \A j \in 1..(k + 1) : ~display_cover_raises(Row(library_df, v[j]).CoverImage)

\* The "My Library" page computes frame v and shows its cards up to position k
\* (lines 396-412).
LibraryPage(v, k) ==
    /\ v \in filter_and_sort_books(library_df, filters)
    /\ k \in 0..(Len(v) - 1)
    /\ CardRenders(v, k)

\* The script reaches show_edit_book_form and the form renders (lines 174-208):
\* every card was rendered, iloc finds the row, and number_input accepts the
\* stored Current Page as a value within its bounds.
EditFormRenders(v) ==
    /\ edit_index # NoIndex
    /\ edit_index < Len(library_df)
    /\ Row(library_df, edit_index).CurrentPage <= Row(library_df, edit_index).Pages
    /\ Len(v) > 0
    /\ LibraryPage(v, Len(v) - 1)

\* What the edit form's widgets let through for `book`: Total Pages has
\* min_value=1, Current Page has min_value=0 and max_value=book['Pages']
\* (lines 199-200).
WidgetsAllow(form, book) ==
    /\ form.pages >= 1
    /\ form.current_page >= 0
    /\ form.current_page <= book.Pages

\* The Edit button of the card at position k (lines 167-168).
ClickEdit(k) ==
    /\ k < Len(library_df)
    /\ \E v \in filter_and_sort_books(library_df, filters) :
          /\ LibraryPage(v, k)
          /\ view' = v
    /\ edit_index' = k
    /\ event' = NoEvent
    /\ UNCHANGED <<library_df, files, disk, today, faults, filters, metric>>

\* The Delete button of the card at position k (lines 171-172).
ClickDelete(k, ok) ==
    /\ k < Len(library_df)
    /\ \E v \in filter_and_sort_books(library_df, filters) :
          /\ LibraryPage(v, k)
          /\ view' = v
    /\ delete_book(k, ok)
    /\ UNCHANGED <<edit_index, today, filters, metric>>

\* "Update Book" (lines 219-225); the key edit_index is deleted only when
\* update_book returned.
SubmitUpdate(form, upload, ok) ==
    /\ edit_index # NoIndex
    /\ edit_index < Len(library_df)
    /\ WidgetsAllow(form, Row(library_df, edit_index))
    /\ \E v \in filter_and_sort_books(library_df, filters) :
          /\ EditFormRenders(v)
          /\ view' = v
    /\ IF form_invalid(form)
       THEN /\ event' = NoEvent
            /\ UNCHANGED <<library_df, files, disk, faults, edit_index>>
       ELSE /\ update_book(edit_index, form, upload, ok)
            /\ edit_index' = IF ok THEN NoIndex ELSE edit_index
    /\ UNCHANGED <<today, filters, metric>>

\* "Cancel" (lines 216-217).
CancelEdit ==
    /\ edit_index # NoIndex
    /\ \E v \in filter_and_sort_books(library_df, filters) :
          /\ EditFormRenders(v)
          /\ view' = v
    /\ edit_index' = NoIndex
    /\ event' = NoEvent
    /\ UNCHANGED <<library_df, files, disk, today, faults, filters, metric>>

\* The user changes the "Search & Filters" widgets; the page computes the
\* frame anew (lines 400-401).
SetFilters(f) ==
    /\ Len(library_df) > 0
    /\ filters' = f
    /\ view' \in filter_and_sort_books(library_df, f)
    /\ event' = NoEvent
    /\ UNCHANGED <<library_df, files, disk, edit_index, today, faults, metric>>

\* The "My Library" page is run with the widgets as they are (lines 396-401).
ShowLibrary ==
    /\ Len(library_df) > 0
    /\ view' \in filter_and_sort_books(library_df, filters)
    /\ event' = NoEvent
    /\ UNCHANGED <<library_df, files, disk, edit_index, today, faults, filters, metric>>

\* The "Statistics" page (lines 315-330).
show_statistics ==
    /\ Len(library_df) > 0
    /\ metric' = average_rating(library_df)
    /\ view' = NoFrame
    /\ event' = Event("statistics", NoIndex, "none", FALSE)
    /\ UNCHANGED <<library_df, files, disk, edit_index, today, faults, filters>>

\* The process is started again: session state is initialised from DATA_FILE
\* (lines 24-32).
Restart ==
    /\ library_df' = read_csv(disk)
    /\ edit_index' = NoIndex
    /\ filters' = DefaultFilters
    /\ view' = NoFrame
    /\ metric' = 0
    /\ event' = NoEvent
    /\ UNCHANGED <<files, disk, today, faults>>

\* Midnight passes.
NextDay ==
    /\ today < MaxDay
    /\ today' = today + 1
    /\ view' = NoFrame
    /\ event' = NoEvent
    /\ UNCHANGED <<library_df, files, disk, edit_index, faults, filters, metric>>

----------------------------------------------------------------------------
(* Inputs *)

UploadInputs == {NoUpload, "jpg"}

\* A durable write may fail while fewer than MaxSaveFailures have failed.
SaveOutcomes == IF faults < MaxSaveFailures THEN {TRUE, FALSE} ELSE {TRUE}

Saves == {TRUE}

Form(title, isbn, pages, current_page, status, rating) ==
    [BlankForm EXCEPT !.title = title, !.author = <<"b">>, !.isbn = isbn,
                      !.pages = pages, !.current_page = current_page,
                      !.status = status, !.rating = rating]

----------------------------------------------------------------------------
(* Spec: the catalog and the cover folder over add, edit, delete, failed     *)
(* writes and restarts.                                                      *)

AddForms ==
    {Form(t, i, 1, 0, "Unread", 0) : t \in {<<>>, <<"a">>}, i \in {"", "i1"}}

EditForms == {Form(<<"a">>, i, 1, 0, "Reading", 0) : i \in {"", "i1"}}

CatalogFilters ==
    {DefaultFilters, [DefaultFilters EXCEPT !.status_filter = {"Reading"}]}

Next ==
    \/ \E form \in AddForms, upload \in UploadInputs, ok \in SaveOutcomes :
          show_add_book_form(form, upload, ok)
    \/ \E k \in 0..(MaxBooks - 1) : ClickEdit(k)
    \/ \E k \in 0..(MaxBooks - 1), ok \in SaveOutcomes : ClickDelete(k, ok)
    \/ \E form \in EditForms, upload \in UploadInputs, ok \in SaveOutcomes :
          SubmitUpdate(form, upload, ok)
    \/ CancelEdit
    \/ \E f \in CatalogFilters : SetFilters(f)
    \/ Restart

Spec == Init /\ [][Next]_vars

----------------------------------------------------------------------------
(* SpecAdd: add_book on the catalogs that adding, deleting, restarting and   *)
(* the passing of days produce.                                              *)

NewForms == {Form(t, i, 1, 0, "Unread", 0) : t \in {<<>>, <<"a">>}, i \in {"", "i1"}}

NextAdd ==
    \/ \E form \in NewForms, upload \in UploadInputs, ok \in Saves :
          show_add_book_form(form, upload, ok)
    \/ \E k \in 0..(MaxBooks - 1), ok \in Saves : ClickDelete(k, ok)
    \/ Restart
    \/ NextDay

SpecAdd == Init /\ [][NextAdd]_vars

----------------------------------------------------------------------------
(* SpecProgress: Total Pages and Current Page over edits, deletions and      *)
(* restarts.  Every book is added with a cover, so that every card renders   *)
(* after a restart.                                                          *)

MaxPages == 2

BookForms == {Form(<<"a">>, "", p, 0, "Unread", 0) : p \in 1..MaxPages}

ProgressForms ==
    {Form(t, "", p, c, "Reading", 0) :
        t \in {<<>>, <<"a">>}, p \in 1..MaxPages, c \in 0..MaxPages}

NextProgress ==
    \/ \E form \in BookForms, ok \in Saves : show_add_book_form(form, "jpg", ok)
    \/ \E k \in 0..(MaxBooks - 1) : ClickEdit(k)
    \/ \E k \in 0..(MaxBooks - 1), ok \in Saves : ClickDelete(k, ok)
    \/ \E form \in ProgressForms, ok \in Saves : SubmitUpdate(form, NoUpload, ok)
    \/ CancelEdit
    \/ Restart

SpecProgress == Init /\ [][NextProgress]_vars

----------------------------------------------------------------------------
(* SpecDates: Date Finished over edits, deletions, restarts and days.        *)

StatusForms ==
    {Form(<<"a">>, "", 1, 0, st, 0) : st \in {"Reading", "Completed", "On Hold"}}

NextDates ==
    \/ \E ok \in Saves : show_add_book_form(Form(<<"a">>, "", 1, 0, "Unread", 0), "jpg", ok)
    \/ \E k \in 0..(MaxBooks - 1) : ClickEdit(k)
    \/ \E k \in 0..(MaxBooks - 1), ok \in Saves : ClickDelete(k, ok)
    \/ \E form \in StatusForms, ok \in Saves : SubmitUpdate(form, NoUpload, ok)
    \/ CancelEdit
    \/ Restart
    \/ NextDay

SpecDates == Init /\ [][NextDates]_vars

----------------------------------------------------------------------------
(* SpecQuery: filter_and_sort_books and the average rating on catalogs drawn *)
(* from QueryRows, with the filter widgets set to one of QueryFilters.  A    *)
(* catalog keeps its rows in the order they were added, so Date Added never  *)
(* decreases along it.                                                       *)

QueryRow(title, author, genre, status, year, rating, day) ==
    [Title |-> title, Author |-> author, ISBN |-> "", Genre |-> genre,
     PublicationYear |-> year, Pages |-> 1,
     CurrentPage |-> IF status = "Completed" THEN 1 ELSE 0,
     Status |-> status, Rating |-> rating, Review |-> "",
     DateAdded |-> strftime(day),
     DateFinished |-> IF status = "Completed" THEN strftime(day) ELSE "",
     CoverImage |-> ""]

QueryRows ==
    {QueryRow(<<"a">>, <<"b">>, "Fiction", "Unread", 0, 0, 1),
     QueryRow(<<"a">>, <<"B">>, "Fantasy", "Completed", 1, 4, 2),
     QueryRow(<<"B">>, <<"a">>, "Fiction", "Completed", 0, 4, 1),
     QueryRow(<<"B">>, <<"b">>, "Fantasy", "Unread", 1, 0, 2),
     QueryRow(<<"a", "b">>, <<"A">>, "Fiction", "Reading", 1, 5, 1)}

AddedInOrder(df) ==
    \A i \in 1..(Len(df) - 1) : DayOf(df[i].DateAdded) <= DayOf(df[i + 1].DateAdded)

QueryCatalogs ==
    {df \in UNION {[1..n -> QueryRows] : n \in 0..MaxQueryBooks} :
        /\ AddedInOrder(df)
        /\ \A i, j \in 1..Len(df) : df[i] = df[j] => i = j}

QueryFilters ==
    {[DefaultFilters EXCEPT !.search_query = q, !.genre_filter = g, !.status_filter = st,
                            !.year_min = y, !.rating_filter = r] :
        q \in {<<>>, <<"a">>}, g \in {{}, {"Fiction"}, {"Fiction", "Fantasy"}},
        st \in {{}, {"Completed"}}, y \in {0, 1}, r \in {0, 4}}
    \cup {[DefaultFilters EXCEPT !.sort_option = o] : o \in SortOptions}

InitQuery ==
    /\ library_df \in QueryCatalogs
    /\ files = {}
    /\ disk = to_csv(library_df)
    /\ edit_index = NoIndex
    /\ today = MaxDay
    /\ faults = 0
    /\ filters \in QueryFilters
    /\ view = NoFrame
    /\ metric = 0
    /\ event = NoEvent

NextQuery ==
    \/ ShowLibrary
    \/ show_statistics

SpecQuery == InitQuery /\ [][NextQuery]_vars

----------------------------------------------------------------------------
(* Properties *)

\* A text cell that holds nothing: "" as written, NaN as read back.
Empty(v) == v = "" \/ v = NaN

LastRow(df) == df[Len(df)]

\* C1: add_book leaves the previous records as they were, in their order, and
\* appends exactly one record, with Date Added = today, Status = Unread,
\* Current Page = 0 and Rating = 0.
C1_AddAppendsOneFreshRecord ==
    [][event'.op = "add" =>
          /\ Len(library_df') = Len(library_df) + 1
          /\ SubSeq(library_df', 1, Len(library_df)) = library_df
          /\ LastRow(library_df').DateAdded = strftime(today)
          /\ LastRow(library_df').Status = "Unread"
          /\ LastRow(library_df').CurrentPage = 0
          /\ LastRow(library_df').Rating = 0]_vars

\* add_book has run on a catalog that already held a record of another kind
\* (read back from the file, or with other fields).
C1_Witness ==
    /\ event.op = "add"
    /\ Len(library_df) >= 2
    /\ library_df[1] # LastRow(library_df)

\* C2: Date Finished is write-once: an update sets it to today's date exactly
\* when the update's status is Completed and the cell held nothing before, and
\* a cell that holds a date is never changed by an update.
C2_DateFinishedWriteOnce ==
    [][(event'.op = "update" /\ ~event'.raised) =>
          LET old == Row(library_df, event'.index).DateFinished
              new == Row(library_df', event'.index)
          IN  /\ (new.Status = "Completed" /\ Empty(old)) => new.DateFinished = strftime(today)
              /\ (new.Status # "Completed" /\ Empty(old)) => Empty(new.DateFinished)
              /\ ~Empty(old) => new.DateFinished = old]_vars

\* C3: in every reachable catalog every record has 0 <= Current Page <= Pages.
C3_ClampLaw ==
    \A i \in 1..Len(library_df) :
        /\ 0 <= library_df[i].CurrentPage
        /\ library_df[i].CurrentPage <= library_df[i].Pages

\* C4: every record whose Cover Image holds a path references a file that
\* exists in the cover folder.
C4_CoverFilesExist ==
    \A i \in 1..Len(library_df) :
        ~Empty(library_df[i].CoverImage) => library_df[i].CoverImage \in files

\* No two rows of frame v have equal values in the sort column.
TieFree(df, v, column) ==
    \A i, j \in 1..Len(v) : i # j => ~KeyEq(column, Row(df, v[i]), Row(df, v[j]))

\* C5: delete_book(index) removes exactly the record at index, leaves the
\* others as they were and in their order, and the deleted record's cover
\* file does not exist afterwards (stated for the calls made from a frame
\* whose order the sort key determines).
C5_DeleteRemovesOneRecord ==
    [][(event'.op = "delete"
            /\ TieFree(library_df, view', sort_column(filters.sort_option))) =>
          /\ library_df' = drop(library_df, event'.index)
          /\ Row(library_df, event'.index).CoverImage \notin files']_vars

\* C6: when the durable write of a mutation fails, the catalog and the cover
\* folder are as they were before the call, and the catalog in memory is the
\* catalog last written.
C6_AllOrNothing ==
    [][event'.saved = "failed" =>
          /\ library_df' = library_df
          /\ files' = files
          /\ to_csv(library_df') = disk']_vars

RatedRows(df) == SelectSeq(df, LAMBDA r : r.Rating > 0)

\* C7: the average rating shown is the mean of Rating over the rated records
\* (Rating > 0), and 0 when no record is rated.
C7_AverageOverRatedOnly ==
    event.op = "statistics" =>
        metric = IF Len(RatedRows(library_df)) = 0 THEN 0
                 ELSE Tenths(SumRatings(RatedRows(library_df)), Len(RatedRows(library_df)))

\* C8: two records of the returned frame with equal values of the sort key
\* stand in the order they have in the catalog.
C8_SortIsStable ==
    view # NoFrame =>
        \A i, j \in 1..Len(view) :
            (i < j /\ KeyEq(sort_column(filters.sort_option),
                            Row(library_df, view[i]), Row(library_df, view[j])))
                => view[i] < view[j]

\* g restricts at least as much as f in every filter, with the same search
\* text and sort option.
Narrower(g, f) ==
    /\ g.search_query = f.search_query
    /\ g.sort_option = f.sort_option
    /\ f.genre_filter = {} \/ (g.genre_filter # {} /\ g.genre_filter \subseteq f.genre_filter)
    /\ f.status_filter = {} \/ (g.status_filter # {} /\ g.status_filter \subseteq f.status_filter)
    /\ g.year_min >= f.year_min
    /\ g.year_max <= f.year_max
    /\ g.rating_filter >= f.rating_filter

\* C9: the frame returned holds only records of the catalog, each at most
\* once, the catalog is unchanged, and every narrower filter setting returns
\* a subset of it.
C9_FilterComposition ==
    [][view' # NoFrame =>
          /\ library_df' = library_df
          /\ Range(view') \subseteq Labels(library_df)
          /\ Cardinality(Range(view')) = Len(view')
          /\ \A g \in QueryFilters :
                Narrower(g, filters') =>
                    \A w \in filter_and_sort_books(library_df, g) :
                        Range(w) \subseteq Range(view')]_vars

\* A frame that leaves records out was returned, and a narrower setting of the
\* widgets returns fewer records still.
C9_Witness ==
    /\ view # NoFrame
    /\ Len(view) > 0
    /\ Len(view) < Len(library_df)
    /\ \E g \in QueryFilters :
          /\ Narrower(g, filters)
          /\ \E w \in filter_and_sort_books(library_df, g) : Len(w) < Len(view)

\* C10: the index handed to delete_book, or stored in edit_index, by the card
\* at a position of the frame is the label of the record that card displays
\* (stated for the frames whose order the sort key determines).
C10_CardIndexIsItsRecord ==
    [][TieFree(library_df, view', sort_column(filters.sort_option)) =>
          /\ event'.op = "delete" => view'[event'.index + 1] = event'.index
          /\ (edit_index' # NoIndex /\ edit_index' # edit_index)
                => view'[edit_index' + 1] = edit_index']_vars

====
